---- MODULE Spec2Model ----
(***************************************************************************)
(* ArmoniK.CLI live entity-watch subsystem                                 *)
(* (src/src/armonik_cli/commands/watch.py, tasks.py, results.py).          *)
(*                                                                         *)
(* Eight specifications share the pure operators that model the methods:     *)
(*   SpecWatch   one Watch object driven one operation at a time           *)
(*   SpecGroup   WatchGroup.__init__ step by step, over all its arguments  *)
(*   SpecListen  construction, then the listener callbacks, each callback  *)
(*               run as one step                                           *)
(*   SpecDisplay the render loop of the watch command over a               *)
(*               WatchGroupDisplay                                         *)
(*   SpecLive    the render loop while autofill adds watches to the group  *)
(*   SpecRace    the listener callbacks statement by statement on their    *)
(*               threads, and the render thread reading the watches        *)
(*   SpecFeed    one watched entity changing status on the server, its     *)
(*               events queued in order to the listener threads, which are *)
(*               scheduled fairly                                          *)
(*   SpecHistory the same for a longer history of the entity, any          *)
(*               scheduling                                                *)
(* Python's None is "None" for strings (labels, session ids), NoneT for a  *)
(* time and NoData for an entity record.                                   *)
(***************************************************************************)
EXTENDS Integers, Sequences, FiniteSets, TLC

(* ---------------------------------------------------------------- bounds *)
\* time.time() readings are drawn from 0..MaxTime
MaxTime == 2
\* number of status-set invocations recorded for one watch in SpecWatch
MaxCalls == 4
\* largest --limit of a watch group
MaxLimit == 2
\* number of events the listener threads of one group handle
MaxEvents == 2
\* number of status changes of the followed entity in SpecFeed (SpecHistory
\* follows it for one change more)
MaxChanges == 1
\* readings of time.time() that fall within one second of the wall clock
TicksPerSecond == 2

(* ------------------------------------------------------------- constants *)
None == "None"
NoneT == -1

\* the status enumeration (status_cls): integer values and their names
Statuses == {1, 2, 3}
Labels == {"CREATING", "PROCESSING", "COMPLETED"}
\* the keys of status_tracker in the dictionary's order (the enumeration's order)
LabelSeq == <<"CREATING", "PROCESSING", "COMPLETED">>
Sessions == {"s1", "s2"}
Ids == {"a", "b", "c"}

\* status_cls(value).name
StatusName(n) ==
  CASE n = 1 -> "CREATING"
    [] n = 2 -> "PROCESSING"
    [] n = 3 -> "COMPLETED"

NoData == [status |-> 0, session_id |-> None]
Records == [status : Statuses, session_id : Sessions]
\* the records one watch sees: an entity belongs to one session
WatchRecords == {r \in Records : r.session_id = "s1"}
Times == 0..MaxTime
\* the seconds of a day: what a time written as HH:MM:SS can tell apart
SecondsPerDay == 86400
\* the wall-clock second of the day at which reading 0 of time.time() falls
Origins == {0, SecondsPerDay - 1}

VARIABLES
  \* SpecWatch: one Watch object
  kind,          \* "task" (TaskWatch) or "result" (ResultWatch)
  watch,         \* [id, data, current_status, status_tracker]
  now,           \* last reading of time.time()
  last,          \* the operation performed last
  prev,          \* the watch before that operation
  calls,         \* the status-set invocations so far, <<[label, t], ...>>
  \* SpecGroup: one WatchGroup (kind and now are shared with SpecWatch)
  pc,            \* position in WatchGroup.__init__, then "Listening" or "Failed"
  entity_ids,    \* constructor argument; <<>> is None or an empty list
  filter_with,   \* TRUE when the constructor was given a filter
  given_session, \* constructor argument session_id
  session_id,    \* self.session_id
  limit,         \* self.limit
  watches,       \* self.watches: entity id -> Watch
  order,         \* the keys of self.watches in insertion order
  threads,       \* listener name -> "none" | "started" | "dead"
  error,         \* the exception that ended construction, or None
  prompted,      \* what the user answered to click.prompt, None while not asked
  entity_session,\* the server: entity id -> its session id, None when it does not exist
  ev,            \* the event handled last by a listener callback
  n_events,      \* number of events handled so far
  subscribed,    \* listener name -> the session id its subscription was created with
  \* SpecRace: the listener callbacks statement by statement, and the render thread
  tpc,           \* listener name -> the statement its callback is at, "idle" between events
  tloc,          \* listener name -> the local variables of its callback
  seen,          \* the watches as the render thread read them last, <<>> before
  \* SpecFeed: the server's entity a and the event streams of the listeners
  srv,           \* the statuses entity a went through since it was listed
  inbox,         \* listener name -> the status-change events it has yet to yield
  \* SpecDisplay: the render loop of the watch command over a WatchGroupDisplay
  loop,          \* "none" | "update" | "contents" | "draw" | "exited" | "crashed"
  held,          \* display.watches: the ids of the watches of the last snapshot
  current_tab,   \* display.current_tab
  display_error, \* the exception that ended the loop, or None
  tab0,          \* current_tab when the recorded run of key presses began
  run            \* the navigation keys update() handled in a row since then

watchVars == <<watch, last, prev, calls>>
raceVars == <<tpc, tloc, seen>>
feedVars == <<srv, inbox>>
groupVars == <<pc, entity_ids, filter_with, given_session, session_id, limit, watches,
               order, threads, error, prompted, entity_session, ev, n_events, subscribed,
               raceVars, feedVars>>
displayVars == <<loop, held, current_tab, display_error, tab0, run>>
vars == <<kind, now, watchVars, groupVars, displayVars>>

(* ------------------------------------------------------------------ Watch *)
Last(s) == s[Len(s)]

\* a constructor that does not seed the first interval
Watch_init_noseed(identifier, data, t) ==
  [id |-> identifier,
   data |-> data,
   current_status |-> IF data # NoData THEN StatusName(data.status) ELSE None,
   status_tracker |-> [field \in Labels |-> <<>>]]

\* a constructor that seeds an interval already ended
Watch_init_closed(identifier, data, t) ==
  LET tracker == [field \in Labels |-> <<>>]
      cur == IF data # NoData THEN StatusName(data.status) ELSE None
  IN [id |-> identifier,
      data |-> data,
      current_status |-> cur,
      status_tracker |->
        IF cur # None
        THEN [tracker EXCEPT ![cur] = Append(@, [start |-> t, end |-> t])]
        ELSE tracker]

\* Watch.__init__
Watch_init(identifier, data, t) ==
  LET tracker == [field \in Labels |-> <<>>]
      cur == IF data # NoData THEN StatusName(data.status) ELSE None
  IN [id |-> identifier,
      data |-> data,
      current_status |-> cur,
      status_tracker |->
        IF cur # None
        THEN [tracker EXCEPT ![cur] = Append(@, [start |-> t, end |-> NoneT])]
        ELSE tracker]

\* a setter that records the new interval and never closes the previous one
current_status_setter_noclose(w, value, t) ==
  IF w.current_status = value /\ Len(w.status_tracker[value]) # 0
  THEN w
  ELSE [w EXCEPT !.current_status = value,
                 !.status_tracker[value] = Append(@, [start |-> t, end |-> NoneT])]

\* a setter without the early return for a repeated status
current_status_setter_noreturn(w, value, t) ==
  LET appended == [w.status_tracker EXCEPT
                     ![value] = Append(@, [start |-> t, end |-> NoneT])]
  IN [w EXCEPT !.current_status = value,
               !.status_tracker =
                 [status \in Labels |->
                    IF status = value THEN appended[status]
                    ELSE IF Len(appended[status]) > 0
                            /\ Last(appended[status]).end = NoneT
                         THEN [appended[status] EXCEPT ![Len(appended[status])].end = t]
                         ELSE appended[status]]]

\* a setter that closes the previous interval one time unit early
current_status_setter_early(w, value, t) ==
  IF w.current_status = value /\ Len(w.status_tracker[value]) # 0
  THEN w
  ELSE
    LET appended == [w.status_tracker EXCEPT
                       ![value] = Append(@, [start |-> t, end |-> NoneT])]
    IN [w EXCEPT !.current_status = value,
                 !.status_tracker =
                   [status \in Labels |->
                      IF status = value THEN appended[status]
                      ELSE IF Len(appended[status]) > 0
                              /\ Last(appended[status]).end = NoneT
                           THEN [appended[status] EXCEPT
                                   ![Len(appended[status])].end = t - 1]
                           ELSE appended[status]]]

\* a status setter that restarts the label's history at the new interval
current_status_setter_reset(w, value, t) ==
  IF w.current_status = value /\ Len(w.status_tracker[value]) # 0
  THEN w
  ELSE [w EXCEPT !.current_status = value,
                 !.status_tracker =
                   [status \in Labels |->
                      IF status = value THEN <<[start |-> t, end |-> NoneT]>>
                      ELSE IF Len(@[status]) > 0 /\ Last(@[status]).end = NoneT
                           THEN [@[status] EXCEPT ![Len(@[status])].end = t]
                           ELSE @[status]]]

\* Watch.current_status (setter); t is the value time.time() returns at line 85
current_status_setter(w, value, t) ==
  IF w.current_status = value /\ Len(w.status_tracker[value]) # 0
  THEN w
  ELSE
    LET appended == [w.status_tracker EXCEPT
                       ![value] = Append(@, [start |-> t, end |-> NoneT])]
    IN [w EXCEPT !.current_status = value,
                 !.status_tracker =
                   [status \in Labels |->
                      IF status = value THEN appended[status]
                      ELSE IF Len(appended[status]) > 0
                              /\ Last(appended[status]).start # NoneT
                              /\ Last(appended[status]).end = NoneT
                           THEN [appended[status] EXCEPT ![Len(appended[status])].end = t]
                           ELSE appended[status]]]

\* a data setter that stores the record and leaves the status alone
data_setter_keep(w, value, t) == [w EXCEPT !.data = value]

\* Watch.data (setter)
data_setter(w, value, t) ==
  current_status_setter([w EXCEPT !.data = value], StatusName(value.status), t)

\* TaskWatch.refresh raises: self.data is None (AttributeError on None.refresh),
\* or the remote call made by data.refresh fails (fetched = NoData)
TaskWatch_refresh_raises(w, fetched) ==
  w.data = NoData \/ fetched = NoData

\* TaskWatch.refresh: data.refresh(client) updates the record in place, then the
\* status setter runs
TaskWatch_refresh(w, fetched, t) ==
  IF TaskWatch_refresh_raises(w, fetched)
  THEN w
  ELSE current_status_setter([w EXCEPT !.data = fetched], StatusName(fetched.status), t)

\* ResultWatch.refresh raises: client.get_result fails
ResultWatch_refresh_raises(w, fetched) ==
  fetched = NoData

\* ResultWatch.refresh: the data setter, then a direct write of _current_status
ResultWatch_refresh(w, fetched, t) ==
  IF ResultWatch_refresh_raises(w, fetched)
  THEN w
  ELSE [data_setter(w, fetched, t) EXCEPT !.current_status = StatusName(fetched.status)]

\* refresh of the watch's kind
refresh_raises(k, w, fetched) ==
  IF k = "task" THEN TaskWatch_refresh_raises(w, fetched)
  ELSE ResultWatch_refresh_raises(w, fetched)

refresh(k, w, fetched, t) ==
  IF k = "task" THEN TaskWatch_refresh(w, fetched, t)
  ELSE ResultWatch_refresh(w, fetched, t)

\* format_timestamp, for a clock whose reading 0 falls at second origin of the
\* day: the HH:MM:SS string is written as the second of the day it spells (these
\* strings are of one width, so they compare as those numbers do), and "ongoing"
\* as SecondsPerDay, since a letter compares above every digit
format_timestamp(timestamp, origin) ==
  IF timestamp = NoneT THEN SecondsPerDay
  ELSE (origin + timestamp \div TicksPerSecond) % SecondsPerDay

\* the rows appended for one status: its name, the formatted start, and the
\* interval the duration column is computed from
RowsOf(status, entries, origin) ==
  [i \in 1..Len(entries) |->
     [status |-> status,
      start |-> format_timestamp(entries[i].start, origin),
      entry |-> entries[i]]]

\* table_rows of _create_status_display: the statuses in the dictionary's
\* order, the intervals of a status in list order
table_rows(w, origin) ==
  RowsOf(LabelSeq[1], w.status_tracker[LabelSeq[1]], origin)
  \o RowsOf(LabelSeq[2], w.status_tracker[LabelSeq[2]], origin)
  \o RowsOf(LabelSeq[3], w.status_tracker[LabelSeq[3]], origin)

\* sorted(rows, key=lambda v: v[1]): a stable sort on the formatted start
RECURSIVE sorted(_)
sorted(rows) ==
  IF rows = <<>> THEN <<>>
  ELSE LET rest == sorted(Tail(rows))
           below == Cardinality({i \in 1..Len(rest) : rest[i].start < Head(rows).start})
       IN SubSeq(rest, 1, below) \o <<Head(rows)>> \o SubSeq(rest, below + 1, Len(rest))

\* _create_status_display of TaskWatchDisplay and of ResultWatchDisplay: the
\* rows of the status table, top to bottom
create_status_display(w, origin) == sorted(table_rows(w, origin))

(* -------------------------------------------------------------- SpecWatch *)
NoCall == [op |-> "init", set |-> FALSE, label |-> None, t |-> 0, raised |-> FALSE]
NoEvent == [handler |-> None, id |-> None, status |-> 0, raised |-> FALSE]
Listeners == {"status_update", "task_data_refresh", "autofill"}

\* the local variables of a callback: the event's entity id, the id the new
\* watch is built from (autofill), the label being set, curr_time, the position
\* of the setter's loop in the tracker's keys, and where the setter returns to
NoLocals == [id |-> None, eid |-> None, value |-> None, t |-> NoneT, i |-> 0,
             ret |-> None]

\* no callback is running and nothing was rendered; the followed entity has not
\* changed status and no event is pending
RaceIdle ==
  /\ tpc = [l \in Listeners |-> "idle"]
  /\ tloc = [l \in Listeners |-> NoLocals]
  /\ seen = <<>>
  /\ srv = <<>>
  /\ inbox = [l \in Listeners |-> <<>>]

\* no WatchGroupDisplay exists
DisplayIdle ==
  /\ loop = "none"
  /\ held = <<>>
  /\ current_tab = 0
  /\ display_error = None
  /\ tab0 = 0
  /\ run = <<>>

\* no WatchGroup exists
GroupIdle ==
  /\ DisplayIdle
  /\ RaceIdle
  /\ subscribed = [l \in Listeners |-> None]
  /\ pc = "Uninitialized"
  /\ entity_ids = <<>>
  /\ filter_with = FALSE
  /\ given_session = None
  /\ session_id = None
  /\ limit = 0
  /\ watches = <<>>
  /\ order = <<>>
  /\ threads = [l \in Listeners |-> "none"]
  /\ error = None
  /\ prompted = None
  /\ entity_session = [i \in Ids |-> None]
  /\ ev = NoEvent
  /\ n_events = 0

InitWatch ==
  /\ GroupIdle
  /\ kind \in {"task", "result"}
  /\ now = 0
  /\ \E d \in WatchRecords \cup {NoData} :
       /\ watch = Watch_init("a", d, 0)
       /\ prev = Watch_init("a", d, 0)
       /\ calls = IF d # NoData THEN <<[label |-> StatusName(d.status), t |-> 0]>>
                  ELSE <<>>
       /\ last = [NoCall EXCEPT !.set = (d # NoData),
                                !.label = IF d # NoData THEN StatusName(d.status)
                                          ELSE None]

\* watch.current_status = value
SetStatus(value, t) ==
  /\ Len(calls) < MaxCalls
  /\ t >= now
  /\ now' = t
  /\ prev' = watch
  /\ watch' = current_status_setter(watch, value, t)
  /\ calls' = Append(calls, [label |-> value, t |-> t])
  /\ last' = [op |-> "set_status", set |-> TRUE, label |-> value, t |-> t,
              raised |-> FALSE]
  /\ UNCHANGED <<kind, groupVars, displayVars>>

\* watch.data = value
SetData(value, t) ==
  /\ Len(calls) < MaxCalls
  /\ t >= now
  /\ now' = t
  /\ prev' = watch
  /\ watch' = data_setter(watch, value, t)
  /\ calls' = Append(calls, [label |-> StatusName(value.status), t |-> t])
  /\ last' = [op |-> "set_data", set |-> TRUE, label |-> StatusName(value.status),
              t |-> t, raised |-> FALSE]
  /\ UNCHANGED <<kind, groupVars, displayVars>>

\* watch.refresh(client); the client returns fetched, or fails (NoData)
Refresh(fetched, t) ==
  /\ Len(calls) < MaxCalls
  /\ t >= now
  /\ now' = t
  /\ prev' = watch
  /\ watch' = refresh(kind, watch, fetched, t)
  /\ IF refresh_raises(kind, watch, fetched)
     THEN /\ calls' = calls
          /\ last' = [op |-> "refresh", set |-> FALSE, label |-> None, t |-> t,
                      raised |-> TRUE]
     ELSE /\ calls' = Append(calls, [label |-> StatusName(fetched.status), t |-> t])
          /\ last' = [op |-> "refresh", set |-> TRUE,
                      label |-> StatusName(fetched.status), t |-> t, raised |-> FALSE]
  /\ UNCHANGED <<kind, groupVars, displayVars>>

NextWatch ==
  \/ \E value \in Labels, t \in Times : SetStatus(value, t)
  \/ \E value \in WatchRecords, t \in Times : SetData(value, t)
  \/ \E fetched \in WatchRecords \cup {NoData}, t \in Times : Refresh(fetched, t)

SpecWatch == InitWatch /\ [][NextWatch]_vars

(* -------------------------------------------------------------- WatchGroup *)
IdSeq == <<"a", "b", "c">>
SeqOf(S) == SelectSeq(IdSeq, LAMBDA i : i \in S)
Range(q) == {q[i] : i \in 1..Len(q)}
EmptyWatches == [i \in {} |-> NoData]

\* the servers considered: entity a is in session s1, b in s1 or s2, c is in s1
\* or does not exist
ServerStates ==
  {f \in [Ids -> Sessions \cup {None}] :
     f["a"] = "s1" /\ f["b"] # None /\ f["c"] # "s2"}

\* what a fetch of entity i can return under server state es: a record of its
\* session with any status, or a failure (not found, network error) as NoData
Fetchable(es, i) == {NoData} \cup {r \in Records : r.session_id = es[i]}

\* self.watches[key] = w
Insert(ws, key, w) ==
  [i \in DOMAIN ws \cup {key} |-> IF i = key THEN w ELSE ws[i]]

\* the dictionary's key order after self.watches[key] = w
InsertOrder(ord, key) == IF key \in Range(ord) THEN ord ELSE Append(ord, key)

\* the exception a failed refresh raises
RefreshError(k, w) ==
  IF k = "task" /\ w.data = NoData THEN "AttributeError" ELSE "RpcError"

\* _init_populate_watches, explicit ids: a Watch per id, refreshed at once; the
\* first refresh that raises ends the loop
RECURSIVE populate_ids(_, _, _, _, _)
populate_ids(k, acc, ids, fetch, t) ==
  IF ids = <<>> \/ acc.error # None THEN acc
  ELSE
    LET id == Head(ids)
        w0 == Watch_init(id, NoData, t)
    IN populate_ids(
         k,
         [watches |-> Insert(acc.watches, id, refresh(k, w0, fetch[id], t)),
          order |-> InsertOrder(acc.order, id),
          error |-> IF refresh_raises(k, w0, fetch[id])
                    THEN RefreshError(k, w0) ELSE None],
         Tail(ids), fetch, t)

\* _init_populate_watches, listing: a Watch per listed entity, its data assigned
RECURSIVE populate_list(_, _, _, _)
populate_list(acc, page, recs, t) ==
  IF page = <<>> THEN acc
  ELSE
    LET id == Head(page)
    IN populate_list(
         [watches |-> Insert(acc.watches, id,
                             data_setter(Watch_init(id, NoData, t), recs[id], t)),
          order |-> InsertOrder(acc.order, id),
          error |-> None],
         Tail(page), recs, t)

\* the first n elements of q
Take(q, n) == SubSeq(q, 1, IF Len(q) < n THEN Len(q) ELSE n)

\* the state after WatchGroup.__init__ has stored its arguments (lines 135-146)
InitGroupWith(kinds, idsets, filters, sessions, limits, servers) ==
  /\ DisplayIdle
  /\ RaceIdle
  /\ subscribed = [l \in Listeners |-> None]
  /\ kind \in kinds
  /\ now = 0
  /\ watch = Watch_init("a", NoData, 0)
  /\ prev = Watch_init("a", NoData, 0)
  /\ calls = <<>>
  /\ last = NoCall
  /\ pc = "Populating"
  /\ entity_ids \in {SeqOf(S) : S \in idsets}
  /\ filter_with \in filters
  /\ given_session \in sessions
  /\ session_id = given_session
  /\ limit \in limits
  /\ watches = EmptyWatches
  /\ order = <<>>
  /\ threads = [l \in Listeners |-> "none"]
  /\ error = None
  /\ prompted = None
  /\ entity_session \in servers
  /\ ev = NoEvent
  /\ n_events = 0

InitGroup ==
  InitGroupWith({"task", "result"}, SUBSET Ids, BOOLEAN, Sessions \cup {None},
                0..MaxLimit, ServerStates)

groupFrame == <<kind, watchVars, displayVars, raceVars, feedVars, entity_ids,
                filter_with, given_session, limit, entity_session>>

\* self._init_populate_watches() with explicit entity ids
PopulateIds(fetch) ==
  /\ pc = "Populating"
  /\ entity_ids # <<>>
  /\ \A i \in Range(entity_ids) : fetch[i] \in Fetchable(entity_session, i)
  /\ LET res == populate_ids(kind, [watches |-> watches, order |-> order,
                                    error |-> None], entity_ids, fetch, now)
     IN /\ watches' = res.watches
        /\ order' = res.order
        /\ error' = res.error
        /\ pc' = IF res.error # None THEN "Failed" ELSE "Resolving"
  /\ UNCHANGED <<groupFrame, now, session_id, threads, subscribed, prompted, ev, n_events>>

\* the record the server holds for entity i when its status is n
RecordOf(es, i, n) == [status |-> n, session_id |-> es[i]]

\* self._init_populate_watches() by listing: matching are the existing entities
\* the filter selects, the page its first `limit` ones, st their statuses;
\* answer is what the user types if prompted
PopulateList(matching, st, answer) ==
  /\ pc = "Populating"
  /\ entity_ids = <<>>
  /\ \A i \in matching : entity_session[i] # None
  /\ LET page == Take(SeqOf(matching), limit)
         recs == [i \in Range(page) |-> RecordOf(entity_session, i, st[i])]
         res == populate_list([watches |-> watches, order |-> order, error |-> None],
                              page, recs, now)
         ask == Cardinality(matching) = 0 /\ session_id = None
     IN /\ watches' = res.watches
        /\ order' = res.order
        /\ session_id' = IF ask THEN answer ELSE session_id
        /\ prompted' = IF ask THEN answer ELSE None
        /\ ~ask => answer = "s1"
  /\ pc' = "Resolving"
  /\ UNCHANGED <<groupFrame, now, threads, subscribed, error, ev, n_events>>

\* a resolution that takes any of the session ids found, without the check
ResolveSession_nocheck(answer) ==
  /\ pc = "Resolving"
  /\ pc' = "SessionResolved"
  /\ LET session_ids == {watches[i].data.session_id : i \in DOMAIN watches}
     IN /\ session_id' = IF session_id # None THEN session_id
                         ELSE IF session_ids # {} THEN CHOOSE x \in session_ids : TRUE
                         ELSE answer
        /\ prompted' = IF session_id = None /\ session_ids = {} THEN answer
                       ELSE prompted
        /\ (session_id # None \/ session_ids # {}) => answer = "s1"
  /\ UNCHANGED <<groupFrame, now, watches, order, threads, subscribed, error, ev, n_events>>

\* a resolution that prompts but drops the answer
ResolveSession_drop(answer) ==
  /\ pc = "Resolving"
  /\ LET session_ids == IF session_id # None THEN {}
                        ELSE {watches[i].data.session_id : i \in DOMAIN watches}
     IN IF Cardinality(session_ids) > 1
        THEN /\ pc' = "Failed"
             /\ error' = "ValueError"
             /\ answer = "s1"
             /\ UNCHANGED <<session_id, prompted>>
        ELSE /\ pc' = "SessionResolved"
             /\ session_id' = IF session_ids # {} THEN CHOOSE x \in session_ids : TRUE
                              ELSE session_id
             /\ prompted' = IF session_id = None /\ session_ids = {} THEN answer
                            ELSE prompted
             /\ (session_id # None \/ session_ids # {}) => answer = "s1"
             /\ error' = error
  /\ UNCHANGED <<groupFrame, now, watches, order, threads, subscribed, ev, n_events>>

\* WatchGroup.__init__, lines 150-164: derive the session id from the watches
ResolveSession(answer) ==
  /\ pc = "Resolving"
  /\ IF session_id # None
     THEN /\ pc' = "SessionResolved"
          /\ answer = "s1"
          /\ UNCHANGED <<session_id, error, prompted>>
     ELSE
       LET session_ids == {watches[i].data.session_id : i \in DOMAIN watches}
       IN IF Cardinality(session_ids) > 1
          THEN /\ pc' = "Failed"
               /\ error' = "ValueError"
               /\ answer = "s1"
               /\ UNCHANGED <<session_id, prompted>>
          ELSE /\ pc' = "SessionResolved"
               /\ session_id' = IF session_ids # {}
                                THEN CHOOSE x \in session_ids : TRUE
                                ELSE answer
               /\ session_ids # {} => answer = "s1"
               /\ prompted' = IF session_ids = {} THEN answer ELSE prompted
               /\ error' = error
  /\ UNCHANGED <<groupFrame, now, watches, order, threads, subscribed, ev, n_events>>

\* the listeners _register_event_handlers creates and starts
Registered(k, filt) ==
  [l \in Listeners |->
     IF \/ l = "status_update"
        \/ l = "task_data_refresh" /\ k = "task"
        \/ l = "autofill" /\ filt
     THEN "started" ELSE "none"]

\* the session id each created listener was given (self.session_id)
Subscriptions(k, filt, sid) ==
  [l \in Listeners |-> IF Registered(k, filt)[l] = "started" THEN sid ELSE None]

\* a registration that subscribes with the constructor's session_id argument
RegisterEventHandlers_given ==
  /\ pc = "SessionResolved"
  /\ threads' = Registered(kind, filter_with)
  /\ subscribed' = Subscriptions(kind, filter_with, given_session)
  /\ pc' = "Listening"
  /\ UNCHANGED <<groupFrame, now, session_id, watches, order, error, prompted, ev,
                 n_events>>

\* self._register_event_handlers()
RegisterEventHandlers ==
  /\ pc = "SessionResolved"
  /\ threads' = Registered(kind, filter_with)
  /\ subscribed' = Subscriptions(kind, filter_with, session_id)
  /\ pc' = "Listening"
  /\ UNCHANGED <<groupFrame, now, session_id, watches, order, error, prompted, ev,
                 n_events>>

\* The callbacks read the clock at now; one time unit passes between two events.

\* a limit test that lets the group grow one past the limit
below_limit_off(ws, lim) == Cardinality(DOMAIN ws) <= lim

\* autofill: len(list(self.watches.keys())) < self.limit
below_limit(ws, lim) == Cardinality(DOMAIN ws) < lim

\* a status-update callback that drops the event
UpdateWatchStatus_ignore(id, status) ==
  /\ pc = "Listening"
  /\ threads["status_update"] = "started"
  /\ n_events < MaxEvents
  /\ n_events' = n_events + 1
  /\ ev' = [handler |-> "update_watch_status", id |-> id, status |-> status,
            raised |-> FALSE]
  /\ now' = now + 1
  /\ UNCHANGED <<groupFrame, pc, session_id, watches, order, threads, subscribed,
                 error, prompted>>

\* update_watch_status handles a status-change event on the status-update listener
UpdateWatchStatus(id, status) ==
  /\ pc = "Listening"
  /\ threads["status_update"] = "started"
  /\ n_events < MaxEvents
  /\ n_events' = n_events + 1
  /\ watches' = IF id \in DOMAIN watches
                THEN [watches EXCEPT
                        ![id] = current_status_setter(@, StatusName(status), now)]
                ELSE watches
  /\ ev' = [handler |-> "update_watch_status", id |-> id, status |-> status,
            raised |-> FALSE]
  /\ now' = now + 1
  /\ UNCHANGED <<groupFrame, pc, session_id, order, threads, subscribed, error, prompted>>

\* a data-refresh callback that looks the watch up without the membership test
\* (KeyError for an unknown id)
RefreshTaskData_raise(id, fetched) ==
  /\ pc = "Listening"
  /\ threads["task_data_refresh"] = "started"
  /\ n_events < MaxEvents
  /\ n_events' = n_events + 1
  /\ fetched \in Fetchable(entity_session, id)
  /\ id \notin DOMAIN watches => fetched = NoData
  /\ LET raised == id \notin DOMAIN watches \/ refresh_raises(kind, watches[id], fetched)
     IN /\ watches' = IF id \in DOMAIN watches
                      THEN [watches EXCEPT ![id] = refresh(kind, @, fetched, now)]
                      ELSE watches
        /\ threads' = IF raised THEN [threads EXCEPT !["task_data_refresh"] = "dead"]
                      ELSE threads
        /\ ev' = [handler |-> "refresh_task_data", id |-> id, status |-> 0,
                  raised |-> raised]
  /\ now' = now + 1
  /\ UNCHANGED <<groupFrame, pc, session_id, order, error, prompted, subscribed>>

\* refresh_task_data handles a status-change event on the data-refresh listener
\* (tasks only); an exception raised by refresh ends the listener thread;
\* fetched is what the refresh gets (NoData when none is made)
RefreshTaskData(id, fetched) ==
  /\ pc = "Listening"
  /\ threads["task_data_refresh"] = "started"
  /\ n_events < MaxEvents
  /\ n_events' = n_events + 1
  /\ fetched \in Fetchable(entity_session, id)
  /\ id \notin DOMAIN watches => fetched = NoData
  /\ LET raised == id \in DOMAIN watches /\ refresh_raises(kind, watches[id], fetched)
     IN /\ watches' = IF id \in DOMAIN watches
                      THEN [watches EXCEPT ![id] = refresh(kind, @, fetched, now)]
                      ELSE watches
        /\ threads' = IF raised THEN [threads EXCEPT !["task_data_refresh"] = "dead"]
                      ELSE threads
        /\ ev' = [handler |-> "refresh_task_data", id |-> id, status |-> 0,
                  raised |-> raised]
  /\ now' = now + 1
  /\ UNCHANGED <<groupFrame, pc, session_id, order, error, prompted, subscribed>>

\* autofill handles a new-entity event on the autofill listener. The watch is
\* built from event.id for tasks and event.result_id for results; event_id is
\* None when the event has no such attribute (AttributeError before the insert).
\* fetched is what the refresh of the new watch gets (NoData when none is made).
Autofill(id, event_id, fetched) ==
  /\ pc = "Listening"
  /\ threads["autofill"] = "started"
  /\ n_events < MaxEvents
  /\ n_events' = n_events + 1
  /\ fetched \in Fetchable(entity_session, id)
  /\ kind = "result" => event_id = id
  /\ IF below_limit(watches, limit)
     THEN IF event_id = None
          THEN /\ fetched = NoData
               /\ threads' = [threads EXCEPT !["autofill"] = "dead"]
               /\ ev' = [handler |-> "autofill", id |-> id, status |-> 0,
                         raised |-> TRUE]
               /\ UNCHANGED <<watches, order>>
          ELSE LET w0 == Watch_init(event_id, NoData, now)
                   raised == refresh_raises(kind, w0, fetched)
               IN /\ watches' = Insert(watches, id, refresh(kind, w0, fetched, now))
                  /\ order' = InsertOrder(order, id)
                  /\ threads' = IF raised THEN [threads EXCEPT !["autofill"] = "dead"]
                                ELSE threads
                  /\ ev' = [handler |-> "autofill", id |-> id, status |-> 0,
                            raised |-> raised]
     ELSE /\ fetched = NoData
          /\ ev' = [handler |-> "autofill", id |-> id, status |-> 0, raised |-> FALSE]
          /\ UNCHANGED <<watches, order, threads>>
  /\ now' = now + 1
  /\ UNCHANGED <<groupFrame, pc, session_id, error, prompted, subscribed>>

\* WatchGroup.__init__ after its arguments are stored
NextGroup ==
  \/ \E fetch \in [Range(entity_ids) -> Records \cup {NoData}] : PopulateIds(fetch)
  \/ \E matching \in SUBSET Ids :
       \E st \in [Range(Take(SeqOf(matching), limit)) -> Statuses],
          answer \in Sessions :
         PopulateList(matching, st, answer)
  \/ \E answer \in Sessions : ResolveSession(answer)
  \/ RegisterEventHandlers

\* the listener callbacks of a constructed group
NextCallbacks ==
  \/ \E id \in Ids, status \in Statuses : UpdateWatchStatus(id, status)
  \/ \E id \in Ids, fetched \in Records \cup {NoData} : RefreshTaskData(id, fetched)
  \/ \E id \in Ids, event_id \in Ids \cup {None}, fetched \in Records \cup {NoData} :
       Autofill(id, event_id, fetched)

\* the groups whose listeners are followed: session id s1 or none, either one
\* explicit entity id or a filter, entities a and b on the server, c unknown to it
InitListen ==
  /\ InitGroupWith({"task", "result"}, {{}, {"a"}}, BOOLEAN, {"s1", None}, 0..MaxLimit,
                   {f \in ServerStates : f["b"] = "s1" /\ f["c"] = None})
  /\ filter_with = (entity_ids = <<>>)

NextListen == NextGroup \/ NextCallbacks

SpecGroup == InitGroup /\ [][NextGroup]_vars

SpecListen == InitListen /\ [][NextListen]_vars

(* ------------------------------------------------------ WatchGroupDisplay *)
\* what os.read returns for a key press, as characters; <<>> when select times out
RawInputs ==
  {<<>>, <<"ESC">>, <<"ESC", "[", "A">>, <<"ESC", "[", "B">>, <<"ESC", "[", "C">>,
   <<"ESC", "[", "D">>, <<"ESC", "O", "P">>, <<"j">>, <<"l">>, <<"x">>, <<"l", "j">>}

\* data.startswith(prefix)
StartsWith(data, prefix) ==
  Len(data) >= Len(prefix) /\ SubSeq(data, 1, Len(prefix)) = prefix

\* a key reader that does not tell the arrow keys from a lone ESC
get_key_noarrows(data) ==
  IF data = <<>> THEN ""
  ELSE IF StartsWith(data, <<"ESC">>) THEN "ESCAPE"
       ELSE data[1]

\* get_key(blocking=False), the POSIX definition
get_key(data) ==
  IF data = <<>> THEN ""
  ELSE IF StartsWith(data, <<"ESC">>)
       THEN IF StartsWith(data, <<"ESC", "[", "A">>) THEN "UP"
            ELSE IF StartsWith(data, <<"ESC", "[", "B">>) THEN "DOWN"
            ELSE IF StartsWith(data, <<"ESC", "[", "C">>) THEN "RIGHT"
            ELSE IF StartsWith(data, <<"ESC", "[", "D">>) THEN "LEFT"
            ELSE "ESCAPE"
       ELSE data[1]

PrevKeys == {"j", "LEFT"}
NextKeys == {"l", "RIGHT"}

\* Python's a % n for n > 0: the result has the sign of n
PyMod(a, n) == ((a % n) + n) % n

\* a next-tab step that does not wrap
next_tab_nowrap(tab, n) == tab + 1

\* (self.current_tab + 1) % len(self.watches)
next_tab(tab, n) == PyMod(tab + 1, n)

\* a previous-tab step that does not wrap
prev_tab_nowrap(tab, n) == tab - 1

\* (self.current_tab - 1) % len(self.watches)
prev_tab(tab, n) == PyMod(tab - 1, n)

\* a run holds at most one key press more than the largest group has watches
MaxRun == MaxLimit + 1

\* the watch command after its group was constructed from a listing: lim is
\* --limit, S the entities listed (all in status 1, session s1)
InitDisplay ==
  /\ DisplayIdle
  /\ RaceIdle
  /\ kind \in {"task", "result"}
  /\ now = 0
  /\ watch = Watch_init("a", NoData, 0)
  /\ prev = Watch_init("a", NoData, 0)
  /\ calls = <<>>
  /\ last = NoCall
  /\ pc = "Listening"
  /\ entity_ids = <<>>
  /\ filter_with = TRUE
  /\ given_session = "s1"
  /\ session_id = "s1"
  /\ entity_session = [i \in Ids |-> "s1"]
  /\ limit \in 0..MaxLimit
  /\ \E S \in SUBSET Ids :
       /\ Cardinality(S) <= limit
       /\ LET res == populate_list(
                       [watches |-> EmptyWatches, order |-> <<>>, error |-> None],
                       SeqOf(S), [i \in S |-> RecordOf(entity_session, i, 1)], 0)
          IN watches = res.watches /\ order = res.order
  /\ threads = Registered(kind, TRUE)
  /\ subscribed = Subscriptions(kind, TRUE, "s1")
  /\ error = None
  /\ prompted = None
  /\ ev = NoEvent
  /\ n_events = 0

\* WatchGroup.get_watches_view: the watches in the dictionary's order
get_watches_view == order

\* WatchGroupDisplay.__init__ on a snapshot, and the first display() for Live
DisplayInit ==
  /\ pc = "Listening"
  /\ loop = "none"
  /\ held' = get_watches_view
  /\ current_tab' = 0
  /\ loop' = "update"
  /\ UNCHANGED <<kind, now, watchVars, groupVars, display_error, tab0, run>>

\* the run of navigation keys after key is handled at tab
RunAfter(key, tab) ==
  IF key \notin PrevKeys \cup NextKeys THEN [tab0 |-> tab, run |-> <<>>]
  ELSE IF run = <<>> \/ Len(run) >= MaxRun THEN [tab0 |-> tab, run |-> <<key>>]
  ELSE [tab0 |-> tab0, run |-> Append(run, key)]

\* WatchGroupDisplay.update: one key read; data is what the terminal delivers
Update(data) ==
  /\ loop = "update"
  /\ LET key == get_key(data)
         n == Len(held)
         h == RunAfter(key, current_tab)
     IN /\ tab0' = h.tab0
        /\ run' = h.run
        /\ IF key \in PrevKeys \cup NextKeys
           THEN IF n = 0
                THEN \* modulo by zero
                     /\ loop' = "crashed"
                     /\ display_error' = "ZeroDivisionError"
                     /\ UNCHANGED current_tab
                ELSE /\ current_tab' = IF key \in PrevKeys
                                       THEN prev_tab(current_tab, n)
                                       ELSE next_tab(current_tab, n)
                     /\ loop' = "contents"
                     /\ UNCHANGED display_error
           ELSE IF key = "ESCAPE"
                THEN /\ loop' = "exited"
                     /\ UNCHANGED <<current_tab, display_error>>
                ELSE /\ loop' = "contents"
                     /\ UNCHANGED <<current_tab, display_error>>
  /\ UNCHANGED <<kind, now, watchVars, groupVars, held>>

\* display.update_contents(group.get_watches_view())
UpdateContents ==
  /\ loop = "contents"
  /\ held' = get_watches_view
  /\ loop' = "draw"
  /\ IF Len(get_watches_view) # Len(held)
     THEN run' = <<>> /\ tab0' = current_tab
     ELSE UNCHANGED <<run, tab0>>
  /\ UNCHANGED <<kind, now, watchVars, groupVars, current_tab, display_error>>

\* live.update(display.display()): the selected watch is self.watches[current_tab]
Display ==
  /\ loop = "draw"
  /\ IF held # <<>> /\ current_tab >= Len(held)
     THEN loop' = "crashed" /\ display_error' = "IndexError"
     ELSE loop' = "update" /\ UNCHANGED display_error
  /\ UNCHANGED <<kind, now, watchVars, groupVars, held, current_tab, tab0, run>>

NextDisplay ==
  \/ DisplayInit
  \/ \E data \in RawInputs : Update(data)
  \/ UpdateContents
  \/ Display

SpecDisplay == InitDisplay /\ [][NextDisplay]_vars

\* the watch command after a listing that returned nothing or entity a
InitLive ==
  /\ InitDisplay
  /\ DOMAIN watches \subseteq {"a"}

\* the render loop while the autofill listener of the group adds watches; the
\* new entities are in status 1, or their refresh fails
NextLive ==
  \/ NextDisplay
  \/ \E id \in Ids :
       \E event_id \in {id, None}, fetched \in {NoData, RecordOf(entity_session, id, 1)} :
         Autofill(id, event_id, fetched)

SpecLive == InitLive /\ [][NextLive]_vars

(* ------------------------------------ the listener threads, by statement *)
\* The callbacks of a constructed group run on their listener threads with no
\* lock; a thread switch can fall between any two statements. Each action below
\* is one statement of watch.py, tasks.py or results.py, named after its line.

\* the entities the followed events are about
RaceIds == {"a", "b"}

feedFrame == <<kind, watchVars, displayVars, pc, entity_ids, filter_with, given_session,
               session_id, limit, error, prompted, entity_session, subscribed, ev>>
raceFrame == <<feedFrame, feedVars>>

\* the callback of thread th is at statement pos
At(th, pos) ==
  /\ pc = "Listening"
  /\ threads[th] = "started"
  /\ tpc[th] = pos

\* the watch the callback of thread th works on: self.watches[id]
WatchOf(th) == watches[tloc[th].id]

\* that watch becomes w
SetWatch(th, w) == watches' = [watches EXCEPT ![tloc[th].id] = w]

\* the status setter called on thread th returns: ResultWatch.refresh goes on at
\* line 278, any other caller is done and the callback returns False
Return(th) ==
  /\ tpc' = [tpc EXCEPT ![th] = tloc[th].ret]
  /\ tloc' = IF tloc[th].ret = "idle" THEN [tloc EXCEPT ![th] = NoLocals] ELSE tloc

\* an exception leaves the callback and ends the listener thread
Die(th) ==
  /\ threads' = [threads EXCEPT ![th] = "dead"]
  /\ tpc' = [tpc EXCEPT ![th] = "idle"]
  /\ tloc' = [tloc EXCEPT ![th] = NoLocals]

\* update_watch_status is called with a status-change event: the membership
\* test, and the label passed to the setter
ReceiveStatus(id, status) ==
  /\ At("status_update", "idle")
  /\ n_events < MaxEvents
  /\ n_events' = n_events + 1
  /\ now' = now + 1
  /\ IF id \in DOMAIN watches
     THEN /\ tpc' = [tpc EXCEPT !["status_update"] = "s83"]
          /\ tloc' = [tloc EXCEPT !["status_update"] =
                        [NoLocals EXCEPT !.id = id, !.value = StatusName(status),
                                         !.ret = "idle"]]
     ELSE UNCHANGED <<tpc, tloc>>
  /\ UNCHANGED <<raceFrame, watches, order, threads, seen>>

\* refresh_task_data is called with a status-change event: the membership test
ReceiveRefresh(id) ==
  /\ At("task_data_refresh", "idle")
  /\ n_events < MaxEvents
  /\ n_events' = n_events + 1
  /\ now' = now + 1
  /\ IF id \in DOMAIN watches
     THEN /\ tpc' = [tpc EXCEPT !["task_data_refresh"] = "t280"]
          /\ tloc' = [tloc EXCEPT !["task_data_refresh"] =
                        [NoLocals EXCEPT !.id = id, !.ret = "idle"]]
     ELSE UNCHANGED <<tpc, tloc>>
  /\ UNCHANGED <<raceFrame, watches, order, threads, seen>>

\* autofill is called with the new-entity event of an entity not watched yet:
\* the test of the limit. event_id is event.id for a task (None: no such
\* attribute) and event.result_id for a result
ReceiveNew(id, event_id) ==
  /\ At("autofill", "idle")
  /\ n_events < MaxEvents
  /\ id \notin DOMAIN watches
  /\ entity_session[id] # None
  /\ kind = "result" => event_id = id
  /\ n_events' = n_events + 1
  /\ now' = now + 1
  /\ IF below_limit(watches, limit)
     THEN /\ tpc' = [tpc EXCEPT !["autofill"] = "a410"]
          /\ tloc' = [tloc EXCEPT !["autofill"] =
                        [NoLocals EXCEPT !.id = id, !.eid = event_id, !.ret = "idle"]]
     ELSE UNCHANGED <<tpc, tloc>>
  /\ UNCHANGED <<raceFrame, watches, order, threads, seen>>

\* autofill: self.watches[id] = TaskWatch(event.id) / ResultWatch(event.result_id)
A410(th) ==
  /\ At(th, "a410")
  /\ IF tloc[th].eid = None
     THEN Die(th) /\ UNCHANGED <<watches, order>>
     ELSE /\ watches' = Insert(watches, tloc[th].id, Watch_init(tloc[th].eid, NoData, now))
          /\ order' = InsertOrder(order, tloc[th].id)
          /\ tpc' = [tpc EXCEPT ![th] = IF kind = "task" THEN "t280" ELSE "r277"]
          /\ UNCHANGED <<tloc, threads>>
  /\ UNCHANGED <<raceFrame, now, n_events, seen>>

\* TaskWatch.refresh: self.data.refresh(client)
T280(th, fetched) ==
  /\ At(th, "t280")
  /\ fetched \in Fetchable(entity_session, tloc[th].id)
  /\ WatchOf(th).data = NoData => fetched = NoData
  /\ IF TaskWatch_refresh_raises(WatchOf(th), fetched)
     THEN Die(th) /\ UNCHANGED watches
     ELSE /\ SetWatch(th, [WatchOf(th) EXCEPT !.data = fetched])
          /\ tpc' = [tpc EXCEPT ![th] = "t281"]
          /\ UNCHANGED <<tloc, threads>>
  /\ UNCHANGED <<raceFrame, now, order, n_events, seen>>

\* TaskWatch.refresh: self.current_status = TaskStatus(self.data.status).name,
\* the evaluation of the right-hand side
T281(th) ==
  /\ At(th, "t281")
  /\ tloc' = [tloc EXCEPT ![th].value = StatusName(WatchOf(th).data.status)]
  /\ tpc' = [tpc EXCEPT ![th] = "s83"]
  /\ UNCHANGED <<raceFrame, now, watches, order, threads, n_events, seen>>

\* ResultWatch.refresh: self.data = client.get_result(self.id), up to line 66 of
\* the data setter (self._data = value); line 67 takes the label from value
R277(th, fetched) ==
  /\ At(th, "r277")
  /\ fetched \in Fetchable(entity_session, tloc[th].id)
  /\ IF ResultWatch_refresh_raises(WatchOf(th), fetched)
     THEN Die(th) /\ UNCHANGED watches
     ELSE /\ SetWatch(th, [WatchOf(th) EXCEPT !.data = fetched])
          /\ tpc' = [tpc EXCEPT ![th] = "s83"]
          /\ tloc' = [tloc EXCEPT ![th].value = StatusName(fetched.status),
                                  ![th].ret = "r278"]
          /\ UNCHANGED threads
  /\ UNCHANGED <<raceFrame, now, order, n_events, seen>>

\* ResultWatch.refresh: self._current_status = ResultStatus(self.data.status).name
R278(th) ==
  /\ At(th, "r278")
  /\ SetWatch(th, [WatchOf(th) EXCEPT
                     !.current_status = StatusName(WatchOf(th).data.status)])
  /\ tpc' = [tpc EXCEPT ![th] = "idle"]
  /\ tloc' = [tloc EXCEPT ![th] = NoLocals]
  /\ UNCHANGED <<raceFrame, now, order, threads, n_events, seen>>

\* the setter, line 83: the test for a repeated status
S83(th) ==
  /\ At(th, "s83")
  /\ IF /\ WatchOf(th).current_status = tloc[th].value
        /\ Len(WatchOf(th).status_tracker[tloc[th].value]) # 0
     THEN Return(th)
     ELSE tpc' = [tpc EXCEPT ![th] = "s86"] /\ UNCHANGED tloc
  /\ UNCHANGED <<raceFrame, now, watches, order, threads, n_events, seen>>

\* the setter, lines 85-86: curr_time = time.time(); self._current_status = value
S86(th) ==
  /\ At(th, "s86")
  /\ tloc' = [tloc EXCEPT ![th].t = now]
  /\ SetWatch(th, [WatchOf(th) EXCEPT !.current_status = tloc[th].value])
  /\ tpc' = [tpc EXCEPT ![th] = "s89"]
  /\ UNCHANGED <<raceFrame, now, order, threads, n_events, seen>>

\* the setter, lines 89-92: the new open interval
S89(th) ==
  /\ At(th, "s89")
  /\ SetWatch(th, [WatchOf(th) EXCEPT
                     !.status_tracker[tloc[th].value] =
                        Append(@, [start |-> tloc[th].t, end |-> NoneT])])
  /\ tpc' = [tpc EXCEPT ![th] = "s95"]
  /\ tloc' = [tloc EXCEPT ![th].i = 1]
  /\ UNCHANGED <<raceFrame, now, order, threads, n_events, seen>>

\* the setter's loop goes to its next key, or ends and the setter returns
NextEntry(th) ==
  IF tloc[th].i < Len(LabelSeq)
  THEN tpc' = [tpc EXCEPT ![th] = "s95"] /\ tloc' = [tloc EXCEPT ![th].i = @ + 1]
  ELSE Return(th)

\* the setter, lines 95-98: one key of the loop and the tests made on its entries
S95(th) ==
  /\ At(th, "s95")
  /\ LET status == LabelSeq[tloc[th].i]
         entries == WatchOf(th).status_tracker[status]
     IN IF /\ status # tloc[th].value
           /\ Len(entries) > 0
           /\ Last(entries).start # NoneT
           /\ Last(entries).end = NoneT
        THEN tpc' = [tpc EXCEPT ![th] = "s99"] /\ UNCHANGED tloc
        ELSE NextEntry(th)
  /\ UNCHANGED <<raceFrame, now, watches, order, threads, n_events, seen>>

\* the setter, line 99: entries[-1]["end"] = curr_time
S99(th) ==
  /\ At(th, "s99")
  /\ LET status == LabelSeq[tloc[th].i]
         entries == WatchOf(th).status_tracker[status]
     IN SetWatch(th, [WatchOf(th) EXCEPT
                        !.status_tracker[status][Len(entries)].end = tloc[th].t])
  /\ NextEntry(th)
  /\ UNCHANGED <<raceFrame, now, order, threads, n_events, seen>>

\* the render thread: get_watches_view() and the reading of each watch of it
\* (its id, data, current_status and status_tracker) to draw the frame
Render ==
  /\ pc = "Listening"
  /\ seen' = [i \in 1..Len(get_watches_view) |-> watches[get_watches_view[i]]]
  /\ UNCHANGED <<raceFrame, now, watches, order, threads, n_events, tpc, tloc>>

NextRace ==
  \/ \E id \in RaceIds, status \in Statuses : ReceiveStatus(id, status)
  \/ \E id \in RaceIds : ReceiveRefresh(id)
  \/ \E id \in RaceIds : \E event_id \in {id, None} : ReceiveNew(id, event_id)
  \/ \E th \in Listeners : A410(th)
  \/ \E th \in Listeners, fetched \in Records \cup {NoData} : T280(th, fetched)
  \/ \E th \in Listeners : T281(th)
  \/ \E th \in Listeners, fetched \in Records \cup {NoData} : R277(th, fetched)
  \/ \E th \in Listeners : R278(th)
  \/ \E th \in Listeners : S83(th)
  \/ \E th \in Listeners : S86(th)
  \/ \E th \in Listeners : S89(th)
  \/ \E th \in Listeners : S95(th)
  \/ \E th \in Listeners : S99(th)
  \/ Render

SpecRace == InitLive /\ [][NextRace]_vars

(* ------------------------------------- one entity followed to its end *)
\* The server changes the status of the watched entity a; a status-change event
\* is queued, in order, to each listener subscribed to them; each listener thread
\* takes its events one by one and runs its callback statement by statement.

\* the status of a when the group listed it
ListedStatus == 1

\* the statuses a has been in on the server, oldest first
History == <<ListedStatus>> \o srv

\* the listeners that subscribed to status-change events
StatusListeners == {"status_update", "task_data_refresh"}

\* the server moves a to another status and notifies the subscribed streams;
\* a is followed for at most most changes
ServerChange(status, most) ==
  /\ pc = "Listening"
  /\ Len(srv) < most
  /\ status # Last(History)
  /\ srv' = Append(srv, status)
  /\ inbox' = [l \in Listeners |->
                 IF l \in StatusListeners /\ threads[l] = "started"
                 THEN Append(inbox[l], status) ELSE inbox[l]]
  /\ UNCHANGED <<feedFrame, raceVars, now, watches, order, threads, n_events>>

\* a status-update stream that loses its events
FeedStatus_drop ==
  /\ At("status_update", "idle")
  /\ inbox["status_update"] # <<>>
  /\ inbox' = [inbox EXCEPT !["status_update"] = Tail(@)]
  /\ n_events' = n_events + 1
  /\ now' = now + 1
  /\ UNCHANGED <<feedFrame, srv, watches, order, threads, seen, tpc, tloc>>

\* the status-update stream yields its next event of a and update_watch_status
\* is called with it: the membership test, and the label passed to the setter
FeedStatus ==
  /\ At("status_update", "idle")
  /\ inbox["status_update"] # <<>>
  /\ inbox' = [inbox EXCEPT !["status_update"] = Tail(@)]
  /\ n_events' = n_events + 1
  /\ now' = now + 1
  /\ IF "a" \in DOMAIN watches
     THEN /\ tpc' = [tpc EXCEPT !["status_update"] = "s83"]
          /\ tloc' = [tloc EXCEPT !["status_update"] =
                        [NoLocals EXCEPT !.id = "a",
                                         !.value = StatusName(Head(inbox["status_update"])),
                                         !.ret = "idle"]]
     ELSE UNCHANGED <<tpc, tloc>>
  /\ UNCHANGED <<feedFrame, srv, watches, order, threads, seen>>

\* the data-refresh stream yields its next event of a and refresh_task_data is
\* called with it: the membership test
FeedRefresh ==
  /\ At("task_data_refresh", "idle")
  /\ inbox["task_data_refresh"] # <<>>
  /\ inbox' = [inbox EXCEPT !["task_data_refresh"] = Tail(@)]
  /\ n_events' = n_events + 1
  /\ now' = now + 1
  /\ IF "a" \in DOMAIN watches
     THEN /\ tpc' = [tpc EXCEPT !["task_data_refresh"] = "t280"]
          /\ tloc' = [tloc EXCEPT !["task_data_refresh"] =
                        [NoLocals EXCEPT !.id = "a", !.ret = "idle"]]
     ELSE UNCHANGED <<tpc, tloc>>
  /\ UNCHANGED <<feedFrame, srv, watches, order, threads, seen>>

\* one step of listener thread th; a refresh fetches the status a is in now
ThreadStep(th) ==
  \/ th = "status_update" /\ FeedStatus
  \/ th = "task_data_refresh" /\ FeedRefresh
  \/ T280(th, RecordOf(entity_session, "a", Last(History)))
  \/ T281(th)
  \/ S83(th)
  \/ S86(th)
  \/ S89(th)
  \/ S95(th)
  \/ S99(th)

\* a task or a result group with a filter that listed a alone
InitFeed ==
  /\ InitLive
  /\ DOMAIN watches = {"a"}

NextFeed ==
  \/ \E status \in Statuses : ServerChange(status, MaxChanges)
  \/ \E th \in StatusListeners : ThreadStep(th)

\* each listener thread that can take a step eventually takes a step
SpecFeed ==
  /\ InitFeed
  /\ [][NextFeed]_vars
  /\ \A th \in StatusListeners : WF_vars(ThreadStep(th))

NextHistory ==
  \/ \E status \in Statuses : ServerChange(status, MaxChanges + 1)
  \/ \E th \in StatusListeners : ThreadStep(th)

SpecHistory == InitFeed /\ [][NextHistory]_vars

(* ------------------------------------------------------- claims: a Watch *)
\* the status-set invocation performed last ran the setter on prev
SetterRan == last.set /\ last.op # "init"

OpenIntervals(w) ==
  {p \in Labels \X (1..MaxCalls + 1) :
     /\ p[2] <= Len(w.status_tracker[p[1]])
     /\ w.status_tracker[p[1]][p[2]].end = NoneT}

IntervalCount(w, n) ==
  \E f \in [Labels -> 0..n] :
    /\ \A l \in Labels : f[l] = Len(w.status_tracker[l])
    /\ f["CREATING"] + f["PROCESSING"] + f["COMPLETED"] = n

\* C1: setting the status that is already current and already has an interval
\* leaves the status tracker and current_status as they were (no new interval),
\* however often it is repeated.
C1_IdempotentSet ==
  (/\ SetterRan
   /\ prev.current_status = last.label
   /\ Len(prev.status_tracker[last.label]) > 0)
  => /\ watch.status_tracker = prev.status_tracker
     /\ watch.current_status = prev.current_status

\* the same status set three times in a row, the last two as repeats
C1_Witness ==
  /\ last.op = "set_status"
  /\ prev.current_status = last.label
  /\ Len(prev.status_tracker[last.label]) > 0
  /\ Len(calls) >= 3
  /\ calls[Len(calls) - 1].label = last.label
  /\ calls[Len(calls) - 2].label = last.label

\* C2: after construction and after any sequence of status-set, data-assignment
\* and refresh operations run one at a time, at most one interval of the whole
\* tracker has end = None.
C2_SingleOpenInterval == Cardinality(OpenIntervals(watch)) <= 1

\* a refresh that changed the status of a watch holding three intervals
C2_Witness ==
  /\ last.op = "refresh"
  /\ SetterRan
  /\ prev.current_status # last.label
  /\ IntervalCount(watch, 3)
  /\ Cardinality(OpenIntervals(watch)) = 1

\* C3: when the status is set to a label at time t while another label has an
\* open last interval, that interval ends at t afterwards, and t is not before
\* its start.
C3_CloseAtSetTime ==
  SetterRan =>
    \A old \in Labels \ {last.label} :
      (/\ Len(prev.status_tracker[old]) > 0
       /\ Last(prev.status_tracker[old]).end = NoneT)
      => /\ Len(watch.status_tracker[old]) = Len(prev.status_tracker[old])
         /\ Last(watch.status_tracker[old]).end = last.t
         /\ last.t >= Last(watch.status_tracker[old]).start

\* an open interval started at 0 is closed by a status set at a later time
C3_Witness ==
  /\ SetterRan
  /\ last.t > 0
  /\ \E old \in Labels \ {last.label} :
       /\ Len(prev.status_tracker[old]) > 0
       /\ Last(prev.status_tracker[old]).end = NoneT
       /\ Last(watch.status_tracker[old]) = [start |-> 0, end |-> last.t]

ConsecutiveDifferent(cs) ==
  \A i \in 1..Len(cs) - 1 : cs[i].label # cs[i + 1].label

\* the intervals the changes cs put under label l: one per change to l, ended
\* by the next change
IntervalsOf(cs, l) ==
  LET idx == SelectSeq([i \in 1..Len(cs) |-> i], LAMBDA i : cs[i].label = l)
  IN [k \in 1..Len(idx) |->
        [start |-> cs[idx[k]].t,
         end |-> IF idx[k] < Len(cs) THEN cs[idx[k] + 1].t ELSE NoneT]]

\* C4: after status changes s1..sn (consecutive labels different) at
\* non-decreasing times t1..tn the tracker holds exactly one interval per change:
\* [ti, t(i+1)] under si for i < n, [tn, None] under sn, and nothing else.
C4_TimelineOfChanges ==
  ConsecutiveDifferent(calls) =>
    \A l \in Labels : watch.status_tracker[l] = IntervalsOf(calls, l)

\* CREATING at 0, PROCESSING at 1, COMPLETED at 2
C4_Witness ==
  /\ calls = <<[label |-> "CREATING", t |-> 0], [label |-> "PROCESSING", t |-> 1],
               [label |-> "COMPLETED", t |-> 2]>>
  /\ watch.status_tracker =
       [l \in Labels |->
          CASE l = "CREATING" -> <<[start |-> 0, end |-> 1]>>
            [] l = "PROCESSING" -> <<[start |-> 1, end |-> 2]>>
            [] l = "COMPLETED" -> <<[start |-> 2, end |-> NoneT]>>]

\* the tracker of w after one open interval starting at t is appended under label
\* l and the open last interval of label old is ended at t
Transition(w, old, l, t) ==
  [x \in Labels |->
     IF x = l THEN Append(w.status_tracker[l], [start |-> t, end |-> NoneT])
     ELSE IF x = old
          THEN [w.status_tracker[x] EXCEPT ![Len(w.status_tracker[x])].end = t]
          ELSE w.status_tracker[x]]

\* C13: after a refresh that fetched a record, and after a record is assigned to
\* data, current_status is the label of that record's status; when the label
\* differs from the previous current status exactly one open interval is
\* appended under it and the previous status's open interval is closed; when it
\* is the same the tracker is unchanged.
C13_RefreshTracksStatus ==
  (last.op \in {"refresh", "set_data"} /\ ~last.raised)
  => /\ watch.data # NoData
     /\ StatusName(watch.data.status) = last.label
     /\ watch.current_status = last.label
     /\ IF prev.current_status = last.label
        THEN watch.status_tracker = prev.status_tracker
        ELSE watch.status_tracker =
               Transition(prev, prev.current_status, last.label, last.t)

\* a refresh at time 2 moved a watch from CREATING (since 0) to PROCESSING
C13_Witness ==
  /\ last.op = "refresh"
  /\ ~last.raised
  /\ last.t = 2
  /\ prev.current_status = "CREATING"
  /\ watch.current_status = "PROCESSING"
  /\ watch.data.status = 2
  /\ watch.status_tracker["CREATING"] = <<[start |-> 0, end |-> 2]>>
  /\ watch.status_tracker["PROCESSING"] = <<[start |-> 2, end |-> NoneT]>>

\* C14: a watch constructed with data has the label of the data's status as
\* current_status and a tracker with one key per label of the enumeration, one
\* open interval under that label and nothing under the others; constructed
\* without data it has no current_status and an empty sequence under every label.
C14_Construction ==
  last.op = "init" =>
    /\ DOMAIN watch.status_tracker = Labels
    /\ IF watch.data # NoData
       THEN /\ watch.current_status = StatusName(watch.data.status)
            /\ \A l \in Labels :
                 IF l = watch.current_status
                 THEN /\ Len(watch.status_tracker[l]) = 1
                      /\ watch.status_tracker[l][1].end = NoneT
                 ELSE watch.status_tracker[l] = <<>>
       ELSE /\ watch.current_status = None
            /\ \A l \in Labels : watch.status_tracker[l] = <<>>

\* a watch constructed on a record in PROCESSING
C14_Witness ==
  /\ last.op = "init"
  /\ watch.data # NoData
  /\ watch.data.status = 2
  /\ watch.current_status = "PROCESSING"
  /\ watch.status_tracker["PROCESSING"] = <<[start |-> 0, end |-> NoneT]>>
  /\ watch.status_tracker["CREATING"] = <<>>
  /\ watch.status_tracker["COMPLETED"] = <<>>

\* C24: the status tracker is append-only: across any operation on the watch
\* the label keys are the same, no label's interval sequence gets shorter, no
\* interval's start changes, and an interval's end changes only from None to a
\* time (so at most once, and never back).
C24_AppendOnly ==
  /\ DOMAIN watch.status_tracker = DOMAIN prev.status_tracker
  /\ \A l \in DOMAIN prev.status_tracker :
       LET old == prev.status_tracker[l]
           new == watch.status_tracker[l]
       IN /\ Len(new) >= Len(old)
          /\ \A i \in 1..Len(old) :
               /\ i <= Len(new)
               /\ new[i].start = old[i].start
               /\ old[i].end # NoneT => new[i].end = old[i].end
               /\ old[i].end = NoneT => new[i].end \in {NoneT} \cup Times

\* CREATING was entered twice and left twice: its second interval was appended
\* after the first, and the last operation closed it
C24_Witness ==
  /\ Len(prev.status_tracker["CREATING"]) = 2
  /\ prev.status_tracker["CREATING"][2].end = NoneT
  /\ Len(watch.status_tracker["CREATING"]) = 2
  /\ watch.status_tracker["CREATING"][1].end # NoneT
  /\ watch.status_tracker["CREATING"][2].end # NoneT
  /\ watch.current_status = "PROCESSING"

\* C25: the timeline rendered for a watch lists every recorded interval of
\* every status label, in non-decreasing order of interval start time, whatever
\* the tracker holds and wherever on the wall clock its intervals fall.
C25_TimelineSorted ==
  \A origin \in Origins :
    LET rows == create_status_display(watch, origin)
    IN /\ Len(rows) = Len(table_rows(watch, origin))
       /\ \A l \in Labels : \A k \in 1..Len(watch.status_tracker[l]) :
            \E i \in 1..Len(rows) :
              rows[i].status = l /\ rows[i].entry = watch.status_tracker[l][k]
       /\ \A i, j \in 1..Len(rows) :
            i < j => rows[i].entry.start <= rows[j].entry.start

(* -------------------------------------------------- claims: a WatchGroup *)
\* the session ids the watches' data report
SessionIds == {watches[i].data.session_id : i \in DOMAIN watches}

\* population ran to its end (no refresh raised)
Populated ==
  pc \in {"Resolving", "SessionResolved", "Listening", "Failed"}
  /\ error \notin {"AttributeError", "RpcError"}

\* C7: without an explicit session id, populated watches that report two or more
\* distinct session ids make construction fail with the configuration error
\* (ValueError), and no listener thread exists when it fails.
C7_AmbiguousSessionFails ==
  (/\ given_session = None
   /\ Populated
   /\ pc # "Resolving"
   /\ Cardinality(SessionIds) >= 2)
  => /\ pc = "Failed"
     /\ error = "ValueError"
     /\ \A l \in Listeners : threads[l] = "none"

\* watches of a (session s1) and b (session s2), no session id given: failed
C7_Witness ==
  /\ pc = "Failed"
  /\ error = "ValueError"
  /\ given_session = None
  /\ DOMAIN watches = {"a", "b"}
  /\ watches["a"].data.session_id = "s1"
  /\ watches["b"].data.session_id = "s2"
  /\ \A l \in Listeners : threads[l] = "none"

\* C8: in a filter-driven group with limit L whose initial population holds at
\* most L watches, the number of watches never exceeds L, whatever new-entity
\* events autofill handles.
C8_AutofillWithinLimit ==
  (filter_with /\ entity_ids = <<>>) => Cardinality(DOMAIN watches) <= limit

\* limit 1, a is watched, and the second event, a new entity b, was not added
C8_Witness ==
  /\ filter_with
  /\ limit = 1
  /\ n_events = 2
  /\ ev.handler = "autofill"
  /\ ev.id = "b"
  /\ ~ev.raised
  /\ DOMAIN watches = {"a"}

\* the watch of a freshly fetched entity: status S, one open interval under S
FreshlyPopulated(w) ==
  /\ w.data # NoData
  /\ w.current_status = StatusName(w.data.status)
  /\ \A l \in Labels :
       IF l = w.current_status
       THEN Len(w.status_tracker[l]) = 1 /\ w.status_tracker[l][1].end = NoneT
       ELSE w.status_tracker[l] = <<>>

\* C9: constructing a group (task or result kind) with explicit entity ids,
\* against a client that returns a record for each id, gets through population
\* with exactly one watch per id, each with the record's status as
\* current_status and a tracker holding one open interval under that status.
C9_ExplicitIdsPopulate ==
  (/\ entity_ids # <<>>
   /\ pc # "Populating"
   /\ error # "RpcError")
  => /\ error # "AttributeError"
     /\ DOMAIN watches = Range(entity_ids)
     /\ \A i \in DOMAIN watches : watches[i].id = i /\ FreshlyPopulated(watches[i])

\* C10: whenever construction completes, session_id is set: the id given, else
\* the one session id all populated watches share, else (no watches) the id
\* typed at the prompt.
C10_SessionResolved ==
  pc = "Listening" =>
    /\ session_id # None
    /\ given_session # None => session_id = given_session
    /\ (given_session = None /\ DOMAIN watches # {}) => SessionIds = {session_id}
    /\ (given_session = None /\ DOMAIN watches = {})
         => (prompted # None /\ session_id = prompted)

\* no session id given, two watches of session s1: the derived id is s1
C10_Witness ==
  /\ pc = "Listening"
  /\ given_session = None
  /\ prompted = None
  /\ Cardinality(DOMAIN watches) = 2
  /\ SessionIds = {"s1"}
  /\ session_id = "s1"

\* the listener thread a callback runs on
ThreadOf(handler) ==
  CASE handler = "update_watch_status" -> "status_update"
    [] handler = "refresh_task_data" -> "task_data_refresh"
    [] handler = "autofill" -> "autofill"

\* C11: when update_watch_status handles a status-change event whose entity id
\* is a key of watches, that watch's current_status is the label of the event's
\* status after the call, in a task group and in a result group.
C11_StatusEventApplied ==
  (ev.handler = "update_watch_status" /\ ev.id \in DOMAIN watches)
  => watches[ev.id].current_status = StatusName(ev.status)

\* a result group watching a in CREATING handled the event (a, COMPLETED)
C11_Witness ==
  /\ kind = "result"
  /\ ev.handler = "update_watch_status"
  /\ ev.id = "a"
  /\ ev.status = 3
  /\ "a" \in DOMAIN watches
  /\ watches["a"].data.status = 1
  /\ watches["a"].current_status = "COMPLETED"
  /\ Len(watches["a"].status_tracker["COMPLETED"]) = 1

\* C12: when update_watch_status or refresh_task_data handles a status-change
\* event whose entity id is not a key of watches, the mapping and every watch
\* stay as they were, nothing is raised and the listener thread keeps running.
C12_UnknownIdIgnored ==
  [][(/\ n_events' = n_events + 1
      /\ ev'.handler \in {"update_watch_status", "refresh_task_data"}
      /\ ev'.id \notin DOMAIN watches)
     => /\ watches' = watches
        /\ order' = order
        /\ ~ev'.raised
        /\ threads' = threads
        /\ threads'[ThreadOf(ev'.handler)] = "started"]_vars

\* a task group watching a handled a status-change event of b on the
\* data-refresh listener, which is still running
C12_Witness ==
  /\ kind = "task"
  /\ ev.handler = "refresh_task_data"
  /\ ev.id = "b"
  /\ ~ev.raised
  /\ DOMAIN watches = {"a"}
  /\ watches["a"].data # NoData
  /\ threads["task_data_refresh"] = "started"
  /\ threads["status_update"] = "started"

\* the phase of the group's state machine a position of the constructor is in:
\* population lasts until the session id is resolved
Phase(p) == IF p = "Resolving" THEN "Populating" ELSE p

\* the steps of the state machine; a constructor that raises leaves it
PhaseSteps ==
  {<<"Uninitialized", "Populating">>, <<"Populating", "SessionResolved">>,
   <<"SessionResolved", "Listening">>, <<"Populating", "Failed">>}

\* C19: a group goes through Uninitialized, Populating, SessionResolved,
\* Listening in that order without skipping or going back (a constructor that
\* raises ends in none of them); no listener thread exists before the group is
\* Listening, with population finished and session_id set; every listener is
\* subscribed with that session id; a Listening group stays Listening.
C19_PhasesInOrder ==
  /\ [](/\ pc \in {"SessionResolved", "Listening"} => session_id # None
        /\ \A l \in Listeners :
             threads[l] # "none" =>
               /\ pc = "Listening"
               /\ subscribed[l] # None
               /\ subscribed[l] = session_id)
  /\ [][/\ Phase(pc') # Phase(pc) => <<Phase(pc), Phase(pc')>> \in PhaseSteps
        /\ pc = "Listening" => pc' = "Listening"]_vars

\* a group given no session id listed nothing, took s2 from the prompt and its
\* listeners, subscribed to s2, have handled two events
C19_Witness ==
  /\ pc = "Listening"
  /\ given_session = None
  /\ prompted = "s2"
  /\ session_id = "s2"
  /\ filter_with
  /\ threads["status_update"] = "started"
  /\ subscribed["status_update"] = "s2"
  /\ subscribed["autofill"] = "s2"
  /\ n_events = 2

\* the callback running on listener thread th caught the failure: nothing is
\* raised out of it and the thread keeps running
Caught(th) ==
  /\ ~ev'.raised
  /\ threads'[th] = "started"

\* C23: when a remote call made by refresh fails while refresh_task_data or
\* autofill handles an event, the callback catches the failure and drops the
\* event: the listener thread keeps running and goes on delivering events.
C23_RefreshFailureCaught ==
  [][\A id \in Ids :
       /\ (/\ id \in DOMAIN watches
           /\ watches[id].data # NoData
           /\ RefreshTaskData(id, NoData)) => Caught("task_data_refresh")
       /\ (/\ kind = "result"
           /\ below_limit(watches, limit)
           /\ Autofill(id, id, NoData)) => Caught("autofill")]_vars

\* C27: in every state of a watch group each entry of watches is stored under
\* the id of the watch it holds, whether the watch was created from the explicit
\* ids, from the listing or by autofill, in a task and in a result group.
C27_KeyIsWatchId ==
  \A i \in DOMAIN watches : watches[i].id = i

\* C28: a watch in the mapping is never removed or replaced: when autofill
\* handles a new-entity event for an id already watched, with the group below
\* its limit, that id's watch and its recorded history stay as they were.
C28_WatchNeverReplaced ==
  [][/\ DOMAIN watches \subseteq DOMAIN watches'
     /\ (/\ n_events' = n_events + 1
         /\ ev'.handler = "autofill"
         /\ ev'.id \in DOMAIN watches
         /\ below_limit(watches, limit))
        => watches'[ev'.id] = watches[ev'.id]]_vars

(* ------------------------------------------- claims: the listener threads *)
\* no callback is in the middle of a statement sequence on the watch of id
Quiescent(id) ==
  \A th \in Listeners : tpc[th] = "idle" \/ tloc[th].id # id

\* C16: when the status-update thread and the data-refresh thread handle
\* status-change events of the same watched task and their status-set executions
\* interleave statement by statement, the tracker of that task never ends up with
\* more than one interval with end = None (counted whenever no status-set on the
\* watch is under way).
C16_SerializedTracker ==
  kind = "task" =>
    \A id \in DOMAIN watches :
      Quiescent(id) => Cardinality(OpenIntervals(watches[id])) <= 1

\* C17: the render thread never reads, through a get_watches_view() snapshot, a
\* watch whose current_status is a label L while L's sequence in its tracker is
\* empty or ends with a closed interval.
C17_NoHalfAppliedStatus ==
  \A i \in 1..Len(seen) :
    seen[i].current_status # None =>
      /\ Len(seen[i].status_tracker[seen[i].current_status]) > 0
      /\ Last(seen[i].status_tracker[seen[i].current_status]).end = NoneT

\* C18: every snapshot returned by get_watches_view() holds only watches whose
\* data and current_status are populated; none holds a watch added by autofill
\* whose data is still absent.
C18_AutofillAtomic ==
  \A i \in 1..Len(seen) :
    seen[i].data # NoData /\ seen[i].current_status # None

\* C26: whenever no status-set is under way on a watch whose current_status is
\* a label L, the last interval recorded under L exists and is open; this holds
\* when the status-update listener and the data-refresh listener handle events
\* of the same task with interleaved executions.
C26_CurrentIntervalOpen ==
  \A id \in DOMAIN watches :
    (Quiescent(id) /\ watches[id].current_status # None) =>
      /\ Len(watches[id].status_tracker[watches[id].current_status]) > 0
      /\ Last(watches[id].status_tracker[watches[id].current_status]).end = NoneT

(* --------------------------------------------- claims: a WatchGroupDisplay *)
\* C5: with N >= 1 watches held and a starting tab in 0..N-1, N next-tab key
\* presses in a row bring current_tab back to where it started, and a
\* previous-tab press followed by a next-tab press does too; the index stays in
\* 0..N-1.
C5_TabsWrapAround ==
  LET n == Len(held)
  IN (n >= 1 /\ tab0 \in 0..(n - 1) /\ run # <<>>) =>
       /\ current_tab \in 0..(n - 1)
       /\ (Len(run) = n /\ \A i \in 1..n : run[i] \in NextKeys)
            => current_tab = tab0
       /\ (Len(run) = 2 /\ run[1] \in PrevKeys /\ run[2] \in NextKeys)
            => current_tab = tab0

\* two watches, started on the last tab: RIGHT then l wrap around and come back
C5_Witness ==
  /\ Len(held) = 2
  /\ tab0 = 1
  /\ run = <<"RIGHT", "l">>
  /\ current_tab = 1

\* C20: whenever display() is called the held watch list is empty or
\* 0 <= current_tab < its length (no IndexError), under any interleaving of key
\* presses, update_contents snapshot swaps and autofill insertions; and
\* update_contents does not change current_tab.
C20_TabInRange ==
  /\ [](/\ display_error # "IndexError"
        /\ loop = "draw" =>
             (held = <<>> \/ (0 <= current_tab /\ current_tab < Len(held))))
  /\ [][loop = "contents" => current_tab' = current_tab]_vars

\* a result group showing one watch: autofill added b, the snapshot of two was
\* swapped in, tab 1 was selected and display() is about to draw it
C20_Witness ==
  /\ kind = "result"
  /\ loop = "draw"
  /\ held = <<"a", "b">>
  /\ current_tab = 1
  /\ ev.handler = "autofill"
  /\ ev.id = "b"
  /\ ~ev.raised
  /\ n_events = 1

\* C6: with zero watches held, a next-tab or previous-tab key press handled by
\* update() changes nothing and raises no error.
C6_EmptyDisplayNoop ==
  (Len(held) = 0 /\ run # <<>>) =>
    /\ display_error = None
    /\ loop # "crashed"
    /\ current_tab = tab0

\* C21: the render loop ends if and only if update() reads the exit key: it
\* never ends in any other way, whatever keys are pressed, whatever the snapshot
\* holds (an empty list included) and whatever autofill does; and reading the
\* exit key ends it with the exit signal.
C21_ExitOnlyOnExitKey ==
  /\ [](loop # "crashed" /\ display_error = None)
  /\ [][/\ (loop' = "exited" /\ loop # "exited") =>
             \E data \in RawInputs : get_key(data) = "ESCAPE" /\ Update(data)
        /\ \A data \in RawInputs :
             (get_key(data) = "ESCAPE" /\ Update(data)) => loop' = "exited"]_vars

\* the inputs the claim calls unrecognized: no key, a printable key other than
\* j and l, and an escape sequence other than a lone ESC, LEFT and RIGHT
Unrecognized ==
  {data \in RawInputs :
     \/ data = <<>>
     \/ data[1] \notin {"ESC", "j", "l"}
     \/ /\ data[1] = "ESC"
        /\ data \notin {<<"ESC">>, <<"ESC", "[", "C">>, <<"ESC", "[", "D">>}}

\* those of them that are not one of the escape sequences get_key reports as
\* ESCAPE: no key, a printable key other than j and l, UP and DOWN
UnrecognizedNoEscape ==
  {data \in Unrecognized :
     \/ data = <<>>
     \/ data[1] # "ESC"
     \/ data \in {<<"ESC", "[", "A">>, <<"ESC", "[", "B">>}}

\* update() ignored what it read: tab and held list as before, loop goes on
Ignored ==
  /\ current_tab' = current_tab
  /\ held' = held
  /\ loop' = "contents"
  /\ display_error' = display_error

\* C22 as claimed: every input other than the previous-tab keys, the next-tab
\* keys and a lone ESC - no key, other printable keys, UP, DOWN and every other
\* escape sequence - is ignored by update().
C22_UnrecognizedIgnored ==
  [][\A data \in Unrecognized : Update(data) => Ignored]_vars

\* C22 as amended: no key, a printable key other than j and l, UP and DOWN are
\* ignored by update(): current_tab and the held list are unchanged and the loop
\* goes on (any other escape sequence is read as the exit key).
C22_NonEscapeIgnored ==
  [][\A data \in UnrecognizedNoEscape : Update(data) => Ignored]_vars

\* tab 1 of two watches is selected and update() has just read an input that is
\* neither a navigation key nor the exit key
C22_Witness ==
  /\ loop = "contents"
  /\ Len(held) = 2
  /\ current_tab = 1
  /\ run = <<>>
  /\ tab0 = 1

(* -------------------------------------- claims: one entity followed *)
\* the intervals recorded for a, as <<label, start>> pairs
Recorded ==
  UNION {{<<l, watches["a"].status_tracker[l][k].start>> :
            k \in 1..Len(watches["a"].status_tracker[l])} : l \in Labels}

\* C29: for a task handled by the status-update listener and the data-refresh
\* listener, the statuses recorded in the tracker, taken in the order of their
\* start times, follow the task's history on the server: every recorded status
\* is one the task was in, and when one is recorded as entered after another the
\* task entered them in that order.
C29_RecordedFollowsHistory ==
  kind = "task" =>
    /\ \A x \in Recorded :
         \E i \in 1..Len(History) : StatusName(History[i]) = x[1]
    /\ \A x, y \in Recorded :
         x[2] < y[2] =>
           \E i, j \in 1..Len(History) :
             /\ i < j
             /\ StatusName(History[i]) = x[1]
             /\ StatusName(History[j]) = y[1]

====
